---- MODULE Spec2Model ----
(***************************************************************************)
(* Model of the proxy-aware network module (shared/net): the module        *)
(* initialiser that builds the exported `fetch`, mockFetchForTesting and   *)
(* getAxiosSettings.                                                       *)
(***************************************************************************)
EXTENDS Naturals, Sequences, FiniteSets

(* ------------------------------------------------------------------ *)
(* Bounds of the model                                                  *)
(* ------------------------------------------------------------------ *)

\* how many mockFetchForTesting activations are open at the same time
MaxScopes == 2

(* ------------------------------------------------------------------ *)
(* Values                                                               *)
(* ------------------------------------------------------------------ *)

\* JavaScript's undefined: an unset environment variable, an empty slot
Undefined == "undefined"

\* the values a proxy environment variable takes in the model
ProxyValues ==
    { Undefined, "",
      "http://proxy.local:3128", "https://proxy.local:3128",
      "socks://proxy.local:1080", "socks4://proxy.local:1080",
      "socks5://proxy.local:1080",
      "ftp://proxy:21", "proxy.local:3128", "not-a-url" }

\* the values of IS_STANDALONE in the model
StandaloneValues == { Undefined, "true" }

ProxyVars == { "https_proxy", "HTTPS_PROXY", "http_proxy", "HTTP_PROXY" }

Envs ==
    [ https_proxy : ProxyValues, HTTPS_PROXY : ProxyValues,
      http_proxy : ProxyValues, HTTP_PROXY : ProxyValues,
      IS_STANDALONE : StandaloneValues ]

\* one proxy value for each way the initialiser can go
SimpleValues ==
    { Undefined, "http://proxy.local:3128", "socks5://proxy.local:1080" }

\* environments in which only https_proxy and the mode are set
SimpleEnvs ==
    [ https_proxy : SimpleValues, HTTPS_PROXY : { Undefined },
      http_proxy : { Undefined }, HTTP_PROXY : { Undefined },
      IS_STANDALONE : StandaloneValues ]

\* the transports a facade call can reach
GlobalFetch == "globalThis.fetch"
UndiciFetch == "undiciFetch"
UndiciWithDispatcher == "undiciFetch+configuredDispatcher"

\* replacement functions handed to mockFetchForTesting
MockFns == { "f1", "f2" }

\* request targets handed to the facade
Inputs == { "url1", "url2" }

NoDispatcher == [ agent |-> Undefined, uri |-> Undefined ]

ProxyAgent(uri) == [ agent |-> "ProxyAgent", uri |-> uri ]

EnvHttpProxyAgent == [ agent |-> "EnvHttpProxyAgent", uri |-> Undefined ]

\* the marker of a thrown exception
Throws == "<throws>"

(* ------------------------------------------------------------------ *)
(* Pure helpers                                                         *)
(* ------------------------------------------------------------------ *)

\* JavaScript truthiness of a string-or-undefined value
Truthy(v) == v # Undefined /\ v # ""

\* JavaScript a || b
Or(a, b) == IF Truthy(a) THEN a ELSE b

\* mutant of ResolveProxy: the HTTP pair is looked at first
ResolveProxy_HttpFirst(e) ==
    Or(Or(e.http_proxy, e.HTTP_PROXY), Or(e.https_proxy, e.HTTPS_PROXY))

\* const proxy = httpsProxy || httpProxy
ResolveProxy(e) ==
    Or(Or(e.https_proxy, e.HTTPS_PROXY), Or(e.http_proxy, e.HTTP_PROXY))

\* new URL(proxy).protocol.replace(":", ""), or Throws when the string is
\* no URL. The WHATWG parser takes everything before the first ":" as the
\* scheme when it is a valid scheme name.
UrlProtocol(s) ==
    CASE s = "http://proxy.local:3128"    -> "http"
      [] s = "https://proxy.local:3128"   -> "https"
      [] s = "socks://proxy.local:1080"   -> "socks"
      [] s = "socks4://proxy.local:1080"  -> "socks4"
      [] s = "socks5://proxy.local:1080"  -> "socks5"
      [] s = "ftp://proxy:21"             -> "ftp"
      [] s = "proxy.local:3128"           -> "proxy.local"
      [] OTHER                            -> Throws

\* mutant of IsSocks: the generic "socks" scheme is forgotten
IsSocks_NoGeneric(protocol) == protocol \in { "socks4", "socks5" }

\* protocol === "socks" || protocol === "socks4" || protocol === "socks5"
IsSocks(protocol) == protocol \in { "socks", "socks4", "socks5" }

\* protocol === "http" || protocol === "https"
IsHttp(protocol) == protocol \in { "http", "https" }

\* what the module initialiser yields
BuildResult(base, disp, warns, caught, made) ==
    [ baseFetch |-> base, dispatcher |-> disp, warns |-> warns,
      caught |-> caught, constructed |-> made, failure |-> "none" ]

\* mutant of CatchFallback: the catch block leaves baseFetch alone
CatchFallback_KeepGlobal(e) ==
    BuildResult(GlobalFetch, NoDispatcher, 1, TRUE, 0)

\* the catch block of the module initialiser
CatchFallback(e) ==
    BuildResult(IF Truthy(e.IS_STANDALONE) THEN UndiciFetch ELSE GlobalFetch,
                NoDispatcher, 1, TRUE, 0)

\* the catch block, entered by the exception `what`
Caught(e, what) == [ CatchFallback(e) EXCEPT !.failure = what ]

\* The body of the module initialiser, run in environment e; ctorOk says
\* whether the dispatcher constructor it calls returns (TRUE) or throws.
BuildFetch(e, ctorOk) ==
    LET proxy == ResolveProxy(e)
        protocol == UrlProtocol(proxy)
    IN  IF Truthy(proxy)
        THEN IF protocol = Throws
             THEN Caught(e, "url")
             ELSE IF IsSocks(protocol)
             THEN IF ctorOk
                  THEN BuildResult(UndiciWithDispatcher, ProxyAgent(proxy),
                                   0, FALSE, 1)
                  ELSE Caught(e, "constructor")
             ELSE IF IsHttp(protocol)
             THEN IF Truthy(e.IS_STANDALONE)
                  THEN IF ctorOk
                       THEN BuildResult(UndiciWithDispatcher,
                                        EnvHttpProxyAgent, 0, FALSE, 1)
                       ELSE Caught(e, "constructor")
                  ELSE BuildResult(GlobalFetch, NoDispatcher, 0, FALSE, 0)
             ELSE BuildResult(GlobalFetch, NoDispatcher, 1, FALSE, 0)
        ELSE IF Truthy(e.IS_STANDALONE)
             THEN BuildResult(UndiciFetch, NoDispatcher, 0, FALSE, 0)
             ELSE BuildResult(GlobalFetch, NoDispatcher, 0, FALSE, 0)

\* the configurations getAxiosSettings returns
FetchAdapterSettings == [ adapter |-> "fetch", fetch |-> "net.fetch" ]

EmptySettings == [ adapter |-> Undefined, fetch |-> Undefined ]

\* mutant of NeedsFetchAdapter: standalone mode alone does not ask for the
\* fetch adapter, only a parsed http/https proxy does
NeedsFetchAdapter_ProxyOnly(e) ==
    LET proxy == ResolveProxy(e)
        protocol == IF Truthy(proxy) THEN UrlProtocol(proxy) ELSE Undefined
    IN  \/ IsSocks(protocol)
        \/ Truthy(e.IS_STANDALONE) /\ IsHttp(protocol)

\* needsFetchAdapter in getAxiosSettings: a URL that does not parse is
\* caught by the inner try and leaves the flag alone
NeedsFetchAdapter(e) ==
    LET proxy == ResolveProxy(e)
        protocol == IF Truthy(proxy) THEN UrlProtocol(proxy) ELSE Undefined
    IN  \/ IsSocks(protocol)
        \/ Truthy(e.IS_STANDALONE)

\* the value getAxiosSettings returns in environment e
AxiosSettings(e) ==
    IF NeedsFetchAdapter(e) THEN FetchAdapterSettings ELSE EmptySettings

\* mutant of FacadeTarget: the base transport is preferred
FacadeTarget_BaseFirst(mock, base) == Or(base, mock)

\* mockFetch || baseFetch
FacadeTarget(mock, base) == Or(mock, base)

\* the calls one facade call makes: the chosen function, once, with the
\* caller's arguments; the dispatcher closure reads configuredDispatcher
Invocations(mock, base, disp, input) ==
    LET fn == FacadeTarget(mock, base)
    IN  << [ fn |-> fn, input |-> input,
             dispatcher |-> IF fn = UndiciWithDispatcher
                            THEN disp ELSE NoDispatcher ] >>

\* what the process did last that a caller can observe
NoEvent == [ kind |-> "none" ]

FetchEvent(input, slot, innermost, invoked) ==
    [ kind |-> "fetch", input |-> input, slot |-> slot,
      innermost |-> innermost, invoked |-> invoked ]

SettingsEvent(value) == [ kind |-> "settings", value |-> value ]

ExitEvent(how, resets) == [ kind |-> "exit", how |-> how, resets |-> resets ]

(* ------------------------------------------------------------------ *)
(* State                                                                *)
(* ------------------------------------------------------------------ *)

VARIABLES
    env,                  \* process.env: the proxy variables and IS_STANDALONE
    loaded,               \* the module has been evaluated, `fetch` exists
    baseFetch,            \* the baseFetch captured by the exported closure
    configuredDispatcher, \* let configuredDispatcher
    buildLog,             \* what the initialiser did: warnings, catch, constructions
    mockFetch,            \* let mockFetch
    scopes,               \* the open activations of mockFetchForTesting, in call order
    properlyNested,       \* every activation so far ended as the innermost open one
    lastEvent             \* the last facade call, getAxiosSettings value or end
                          \* of an activation

vars ==
    << env, loaded, baseFetch, configuredDispatcher, buildLog, mockFetch,
       scopes, properlyNested, lastEvent >>

netVars == << baseFetch, configuredDispatcher, buildLog >>

mockVars == << mockFetch, scopes, properlyNested >>

NoBuild == [ warns |-> 0, caught |-> FALSE, constructed |-> 0, failure |-> "none" ]

InitRest ==
    /\ loaded = FALSE
    /\ baseFetch = Undefined
    /\ configuredDispatcher = NoDispatcher
    /\ buildLog = NoBuild
    /\ mockFetch = Undefined
    /\ scopes = << >>
    /\ properlyNested = TRUE
    /\ lastEvent = NoEvent

\* the process starts in any environment
InitAnyEnv ==
    /\ env \in Envs
    /\ InitRest

\* the process starts with at most https_proxy and IS_STANDALONE set
Init ==
    /\ env \in SimpleEnvs
    /\ InitRest

(* ------------------------------------------------------------------ *)
(* The module initialiser                                               *)
(* ------------------------------------------------------------------ *)

\* mutant of CanLoad: the initialiser runs again on later accesses
CanLoad_Again == TRUE

\* the initialiser is an immediately-invoked function of a module-level
\* const: it runs when the module is evaluated, once
CanLoad == ~loaded

LoadModule ==
    /\ CanLoad
    /\ \E ctorOk \in BOOLEAN :
         LET r == BuildFetch(env, ctorOk)
         IN  /\ baseFetch' = r.baseFetch
             /\ configuredDispatcher' =
                    IF r.constructed > 0 THEN r.dispatcher
                    ELSE configuredDispatcher
             /\ buildLog' = [ warns |-> buildLog.warns + r.warns,
                              caught |-> r.caught,
                              failure |-> r.failure,
                              constructed |-> buildLog.constructed + r.constructed ]
    /\ loaded' = TRUE
    /\ UNCHANGED << env, mockVars, lastEvent >>

\* something in the process assigns process.env.https_proxy or
\* process.env.IS_STANDALONE
SetEnv ==
    /\ \E e \in SimpleEnvs :
         /\ \/ e.https_proxy = env.https_proxy
            \/ e.IS_STANDALONE = env.IS_STANDALONE
         /\ e # env
         /\ env' = e
    /\ UNCHANGED << loaded, netVars, mockVars, lastEvent >>

(* ------------------------------------------------------------------ *)
(* getAxiosSettings                                                     *)
(* ------------------------------------------------------------------ *)

GetAxiosSettings ==
    /\ loaded
    /\ lastEvent' = SettingsEvent(AxiosSettings(env))
    /\ UNCHANGED << env, loaded, netVars, mockVars >>

\* the replacement of the innermost open activation, if any
InnermostFetch ==
    IF scopes = << >> THEN Undefined ELSE scopes[Len(scopes)].theFetch

(* ------------------------------------------------------------------ *)
(* The exported fetch                                                   *)
(* ------------------------------------------------------------------ *)

Fetch ==
    /\ loaded
    /\ \E input \in Inputs :
         lastEvent' = FetchEvent(input, mockFetch, InnermostFetch,
                                 Invocations(mockFetch, baseFetch,
                                             configuredDispatcher, input))
    /\ UNCHANGED << env, loaded, netVars, mockVars >>

(* ------------------------------------------------------------------ *)
(* mockFetchForTesting                                                  *)
(* ------------------------------------------------------------------ *)

\* the activations whose callback is on the JavaScript stack
Running == { i \in 1..Len(scopes) : scopes[i].state = "callback" }

\* the activation whose callback is executing
Top == CHOOSE i \in Running : \A j \in Running : j <= i

\* the open activations without the i-th
Without(i) ==
    [ j \in 1..(Len(scopes) - 1) |-> IF j < i THEN scopes[j] ELSE scopes[j + 1] ]

\* mutant of RestoreValue: the slot is cleared instead of restored
RestoreValue_Clear(sc) == Undefined

\* mockFetch = originalMockFetch
RestoreValue(sc) == sc.originalMockFetch

\* mutant of ResetsSync: the reset sits after the callback instead of in
\* a finally block, so a throwing callback skips it
ResetsSync_NoFinally(willResetSync, threw) == willResetSync /\ ~threw

\* the finally block: if (willResetSync) mockFetch = originalMockFetch
ResetsSync(willResetSync, threw) == willResetSync

\* activation s is over; restores says whether it writes the slot now
Exit(s, how, restores) ==
    /\ mockFetch' = IF restores THEN RestoreValue(scopes[s]) ELSE mockFetch
    /\ scopes' = Without(s)
    /\ lastEvent' = ExitEvent(how, scopes[s].resets + (IF restores THEN 1 ELSE 0))
    /\ properlyNested' = (properlyNested /\ s = Len(scopes))

\* mockFetchForTesting(theFetch, callback) up to the call of callback
MockFetchForTesting ==
    /\ loaded
    /\ Len(scopes) < MaxScopes
    /\ \E theFetch \in MockFns :
         /\ scopes' = Append(scopes,
                [ theFetch |-> theFetch,
                  originalMockFetch |-> mockFetch,
                  targetBefore |-> FacadeTarget(mockFetch, baseFetch),
                  willResetSync |-> TRUE,
                  state |-> "callback",
                  resets |-> 0 ])
         /\ mockFetch' = theFetch
    /\ UNCHANGED << env, loaded, netVars, properlyNested, lastEvent >>

\* callback() returns a value that is no Promise
CallbackReturns ==
    /\ Running # { }
    /\ Exit(Top, "return", ResetsSync(scopes[Top].willResetSync, FALSE))
    /\ UNCHANGED << env, loaded, netVars >>

\* callback() throws
CallbackThrows ==
    /\ Running # { }
    /\ Exit(Top, "throw", ResetsSync(scopes[Top].willResetSync, TRUE))
    /\ UNCHANGED << env, loaded, netVars >>

\* callback() returns a Promise: willResetSync = false, the reset is handed
\* to result.finally and the finally block does nothing
CallbackReturnsPromise ==
    /\ Running # { }
    /\ LET reset == ResetsSync(FALSE, FALSE)
       IN  /\ scopes' = [ scopes EXCEPT
                            ![Top].willResetSync = FALSE,
                            ![Top].state = "pending",
                            ![Top].resets = @ + (IF reset THEN 1 ELSE 0) ]
           /\ mockFetch' = IF reset THEN RestoreValue(scopes[Top])
                           ELSE mockFetch
    /\ UNCHANGED << env, loaded, netVars, properlyNested, lastEvent >>

\* the Promise of an activation settles; its finally handler runs as a job
\* of its own, when no callback is on the stack
PromiseSettles ==
    /\ Running = { }
    /\ \E s \in 1..Len(scopes) :
         /\ scopes[s].state = "pending"
         /\ \E how \in { "fulfilled", "rejected" } : Exit(s, how, TRUE)
    /\ UNCHANGED << env, loaded, netVars >>

(* ------------------------------------------------------------------ *)
(* Specifications                                                       *)
(* ------------------------------------------------------------------ *)

Next ==
    \/ LoadModule
    \/ SetEnv
    \/ GetAxiosSettings
    \/ Fetch
    \/ MockFetchForTesting
    \/ CallbackReturns
    \/ CallbackThrows
    \/ CallbackReturnsPromise
    \/ PromiseSettles

Spec == Init /\ [][Next]_vars

\* the selection alone, over every environment
NextSelect ==
    \/ LoadModule
    \/ GetAxiosSettings
    \/ Fetch

SpecSelect == InitAnyEnv /\ [][NextSelect]_vars

(* ------------------------------------------------------------------ *)
(* Vocabulary of the properties                                         *)
(* ------------------------------------------------------------------ *)

\* the protocol class of a proxy value, read off the value
ClassOf(v) ==
    CASE v \in { Undefined, "" }                  -> "none"
      [] v = "http://proxy.local:3128"           -> "http"
      [] v = "https://proxy.local:3128"          -> "https"
      [] v = "socks://proxy.local:1080"          -> "socks"
      [] v = "socks4://proxy.local:1080"         -> "socks4"
      [] v = "socks5://proxy.local:1080"         -> "socks5"
      [] v \in { "ftp://proxy:21", "proxy.local:3128" } -> "unsupported"
      [] v = "not-a-url"                         -> "malformed"

Classes ==
    { "none", "http", "https", "socks", "socks4", "socks5", "unsupported" }

SocksClasses == { "socks", "socks4", "socks5" }

NonEmpty(v) == v \notin { Undefined, "" }

\* the first non-empty of https_proxy, HTTPS_PROXY, http_proxy, HTTP_PROXY
FirstNonEmpty(e) ==
    IF NonEmpty(e.https_proxy) THEN e.https_proxy
    ELSE IF NonEmpty(e.HTTPS_PROXY) THEN e.HTTPS_PROXY
    ELSE IF NonEmpty(e.http_proxy) THEN e.http_proxy
    ELSE IF NonEmpty(e.HTTP_PROXY) THEN e.HTTP_PROXY
    ELSE Undefined

Standalone == env.IS_STANDALONE # Undefined

EnvClass == ClassOf(FirstNonEmpty(env))

Transport(base, disp) == [ baseFetch |-> base, dispatcher |-> disp ]

\* the transport of the facade as built
Built == Transport(baseFetch, configuredDispatcher)

\* the table of section 4.2, by class and mode, for the proxy value v
Table(class, standalone, v) ==
    CASE class = "none" ->
            IF standalone THEN Transport(UndiciFetch, NoDispatcher)
            ELSE Transport(GlobalFetch, NoDispatcher)
      [] class \in SocksClasses ->
            Transport(UndiciWithDispatcher, ProxyAgent(v))
      [] class \in { "http", "https" } ->
            IF standalone THEN Transport(UndiciWithDispatcher, EnvHttpProxyAgent)
            ELSE Transport(GlobalFetch, NoDispatcher)
      [] class = "unsupported" ->
            Transport(GlobalFetch, NoDispatcher)

NonHost(base) == base \in { UndiciFetch, UndiciWithDispatcher }

(* ------------------------------------------------------------------ *)
(* C1                                                                   *)
(* ------------------------------------------------------------------ *)

\* C1 as stated: for every protocol class and both modes the transport of
\* the facade is the one of the section 4.2 table, whatever happened while
\* it was built.
C1_TableAlways ==
    (loaded /\ EnvClass \in Classes)
        => Built = Table(EnvClass, Standalone, FirstNonEmpty(env))

\* C1 amended: for every protocol class and both modes, when the dispatcher
\* constructor returns the transport of the facade is the one of the
\* section 4.2 table; when the constructor throws it is the table's entry
\* for class none in that mode.
C1_TableUnlessConstructorThrows ==
    (loaded /\ EnvClass \in Classes)
        => Built = IF buildLog.failure = "constructor"
                   THEN Table("none", Standalone, Undefined)
                   ELSE Table(EnvClass, Standalone, FirstNonEmpty(env))

C1_Witness ==
    /\ loaded
    /\ ~Standalone
    /\ EnvClass = "socks"
    /\ buildLog.failure = "none"
    /\ Built = Transport(UndiciWithDispatcher,
                         ProxyAgent("socks://proxy.local:1080"))

(* ------------------------------------------------------------------ *)
(* C2                                                                   *)
(* ------------------------------------------------------------------ *)

\* the environment has every proxy variable unset, in the current mode
NoProxyEnv ==
    [ https_proxy |-> Undefined, HTTPS_PROXY |-> Undefined,
      http_proxy |-> Undefined, HTTP_PROXY |-> Undefined,
      IS_STANDALONE |-> env.IS_STANDALONE ]

\* C2: with the environment unchanged since the module was loaded (and
\* nothing thrown while the facade was built), getAxiosSettings returns the
\* configuration routing through the facade if and only if the facade's
\* base transport is a non-host (undici) transport, and the empty
\* configuration if and only if the base transport is the host's global
\* fetch.
C2_SettingsAgreeWithFacade ==
    (lastEvent.kind = "settings" /\ buildLog.failure = "none")
        => /\ (lastEvent.value = FetchAdapterSettings) <=> NonHost(baseFetch)
           /\ (lastEvent.value = EmptySettings) <=> (baseFetch = GlobalFetch)

(* ------------------------------------------------------------------ *)
(* C6                                                                   *)
(* ------------------------------------------------------------------ *)

\* C6 as stated: getAxiosSettings returns the configuration routing
\* through the facade exactly when the resolved proxy is SOCKS, or is
\* http/https in standalone mode, and the empty configuration otherwise.
C6_FacadeOnlyForProxies ==
    lastEvent.kind = "settings"
        => lastEvent.value =
              IF \/ EnvClass \in SocksClasses
                 \/ Standalone /\ EnvClass \in { "http", "https" }
              THEN FetchAdapterSettings
              ELSE EmptySettings

\* C6 amended: getAxiosSettings returns the configuration routing through
\* the facade exactly when the resolved proxy is SOCKS or the process is
\* in standalone mode (whatever the proxy: none, unsupported, malformed or
\* http/https), and the empty configuration in every other case; it
\* returns one of the two and never throws.
C6_FacadeForSocksOrStandalone ==
    lastEvent.kind = "settings"
        => lastEvent.value =
              IF EnvClass \in SocksClasses \/ Standalone
              THEN FetchAdapterSettings
              ELSE EmptySettings

C6_Witness ==
    /\ lastEvent.kind = "settings"
    /\ Standalone
    /\ EnvClass = "none"
    /\ lastEvent.value = FetchAdapterSettings

(* ------------------------------------------------------------------ *)
(* C7                                                                   *)
(* ------------------------------------------------------------------ *)

\* the environment asks for a dispatcher to be constructed
NeedsDispatcher ==
    \/ EnvClass \in SocksClasses
    \/ Standalone /\ EnvClass \in { "http", "https" }

\* C7: a proxy value that is no URL, or a dispatcher constructor that
\* throws, ends in the catch block and nowhere else: the module is loaded,
\* exactly one warning is logged, no dispatcher is retained or counted as
\* constructed, and the base transport is the one built for an environment
\* without proxy in the same mode (global fetch when embedded, plain
\* undici fetch when standalone).
C7_FailureFallsBack ==
    /\ (loaded /\ EnvClass = "malformed") => buildLog.failure = "url"
    /\ (loaded /\ buildLog.failure # "none")
         => /\ buildLog.caught
            /\ buildLog.warns = 1
            /\ buildLog.constructed = 0
            /\ configuredDispatcher = NoDispatcher
            /\ baseFetch = (IF Standalone THEN UndiciFetch ELSE GlobalFetch)
            /\ baseFetch = BuildFetch(NoProxyEnv, TRUE).baseFetch
            /\ buildLog.failure = "constructor" => NeedsDispatcher

C7_Witness ==
    /\ loaded
    /\ Standalone
    /\ EnvClass = "socks5"
    /\ buildLog.failure = "constructor"
    /\ buildLog.warns = 1
    /\ baseFetch = UndiciFetch

(* ------------------------------------------------------------------ *)
(* C8                                                                   *)
(* ------------------------------------------------------------------ *)

\* the environment in which the one value v is given as https_proxy
OnlyHttpsProxy(v) == [ NoProxyEnv EXCEPT !.https_proxy = v ]

HttpsPairSet == NonEmpty(env.https_proxy) \/ NonEmpty(env.HTTPS_PROXY)

IsSocksValue(v) == ClassOf(v) \in SocksClasses

\* the first SOCKS URL found in https_proxy, then http_proxy (either case)
FirstSocks(e) ==
    IF IsSocksValue(e.https_proxy) THEN e.https_proxy
    ELSE IF IsSocksValue(e.HTTPS_PROXY) THEN e.HTTPS_PROXY
    ELSE IF IsSocksValue(e.http_proxy) THEN e.http_proxy
    ELSE e.HTTP_PROXY

\* C9: whenever one of the proxy variables holds a SOCKS URL (and nothing
\* threw while the facade was built), the facade is backed by a proxy
\* dispatcher bound to the first SOCKS URL in the order https_proxy,
\* http_proxy.
C9_FirstSocksProxyUsed ==
    ( /\ loaded
      /\ buildLog.failure = "none"
      /\ \E n \in ProxyVars : IsSocksValue(env[n]) )
        => Built = Transport(UndiciWithDispatcher, ProxyAgent(FirstSocks(env)))

(* ------------------------------------------------------------------ *)
(* C3                                                                   *)
(* ------------------------------------------------------------------ *)

\* an activation ends in this step
SomeExit == Len(scopes') < Len(scopes)

\* C3: whenever an activation of mockFetchForTesting ends, by a return or
\* a throw of its callback or by its promise fulfilling or rejecting, the
\* slot then holds the value saved when that activation began, this was
\* the activation's only write of the slot after the installation, and a
\* facade call made next goes where one would have gone just before the
\* installation; an activation that ends is not open anymore, and one
\* that is open has not restored the slot.
C3_RestoredOnEveryExit ==
    [][ /\ SomeExit =>
            \E s \in 1..Len(scopes) :
               /\ scopes' = Without(s)
               /\ mockFetch' = scopes[s].originalMockFetch
               /\ FacadeTarget(mockFetch', baseFetch') = scopes[s].targetBefore
               /\ lastEvent'.kind = "exit"
               /\ lastEvent'.resets = 1
               /\ lastEvent'.how \in { "return", "throw", "fulfilled", "rejected" }
        /\ \A i \in 1..Len(scopes') : scopes'[i].resets = 0
      ]_vars

C3_Witness ==
    /\ lastEvent.kind = "exit"
    /\ lastEvent.how = "rejected"
    /\ lastEvent.resets = 1
    /\ Len(scopes) = 1
    /\ scopes[1].theFetch = "f1"
    /\ scopes[1].state = "pending"
    /\ mockFetch = "f1"

(* ------------------------------------------------------------------ *)
(* C4                                                                   *)
(* ------------------------------------------------------------------ *)

\* C4: as long as every activation that ended was, when it ended, the
\* innermost open one (properly nested scopes), the slot holds the
\* replacement of the innermost open activation, and undefined, its
\* initial value, when none is open.
C4_NestedRestoresEnclosing ==
    properlyNested => mockFetch = InnermostFetch

C4_Witness ==
    /\ properlyNested
    /\ lastEvent.kind = "exit"
    /\ lastEvent.how = "throw"
    /\ Len(scopes) = 1
    /\ scopes[1].theFetch = "f2"
    /\ scopes[1].state = "callback"
    /\ mockFetch = "f2"

(* ------------------------------------------------------------------ *)
(* C5                                                                   *)
(* ------------------------------------------------------------------ *)

\* C5: a facade call invokes exactly one function, once, with the caller's
\* arguments: the replacement in the slot at the time of the call when
\* there is one, and never the base transport then; the base transport
\* built at load (with the stored dispatcher when it is the dispatching
\* one) when the slot is empty. With properly nested scopes the slot at
\* the time of the call holds the replacement of the innermost open
\* activation, from its installation until its callback returns or throws
\* or its promise settles.
C5_CallTimeDispatch ==
    lastEvent.kind = "fetch"
        => /\ Len(lastEvent.invoked) = 1
           /\ lastEvent.invoked[1].input = lastEvent.input
           /\ lastEvent.slot \in MockFns
                => /\ lastEvent.invoked[1].fn = lastEvent.slot
                   /\ lastEvent.invoked[1].dispatcher = NoDispatcher
           /\ lastEvent.slot \notin MockFns
                => /\ lastEvent.slot = Undefined
                   /\ lastEvent.invoked[1].fn = baseFetch
                   /\ lastEvent.invoked[1].dispatcher = configuredDispatcher
           /\ properlyNested => lastEvent.slot = lastEvent.innermost

C5_Witness ==
    /\ lastEvent.kind = "fetch"
    /\ buildLog.failure = "constructor"
    /\ baseFetch = UndiciFetch
    /\ properlyNested
    /\ Len(scopes) = 2
    /\ scopes[2].state = "pending"
    /\ lastEvent.slot = "f2"
    /\ lastEvent.invoked = << [ fn |-> "f2", input |-> "url2",
                                dispatcher |-> NoDispatcher ] >>

(* ------------------------------------------------------------------ *)
(* C10                                                                  *)
(* ------------------------------------------------------------------ *)

\* C10: no more than one dispatcher is ever constructed, and once the
\* module is loaded no step (a facade call, a getAxiosSettings call, an
\* override being installed or restored, a change of the environment)
\* constructs a dispatcher, replaces the stored one, changes the facade's
\* base transport or runs the initialiser again.
C10_DecisionIsStatic ==
    [][ /\ buildLog'.constructed <= 1
        /\ loaded => /\ loaded'
                     /\ baseFetch' = baseFetch
                     /\ configuredDispatcher' = configuredDispatcher
                     /\ buildLog' = buildLog
      ]_vars

C10_Witness ==
    /\ loaded
    /\ env.https_proxy = Undefined
    /\ env.IS_STANDALONE = Undefined
    /\ configuredDispatcher = EnvHttpProxyAgent
    /\ buildLog.constructed = 1
    /\ lastEvent.kind = "fetch"
    /\ lastEvent.invoked[1].dispatcher = EnvHttpProxyAgent

(* ------------------------------------------------------------------ *)
(* C11                                                                  *)
(* ------------------------------------------------------------------ *)

\* C11: however the activations of mockFetchForTesting interleave, nested
\* or overlapping, the slot holds at most one replacement at any instant,
\* and once every activation has ended (no callback running, no promise
\* pending) the slot holds undefined, the value it had before the first
\* installation, so that a facade call then reaches the base transport.
C11_SlotClearedWhenAllSettled ==
    /\ mockFetch \in MockFns \cup { Undefined }
    /\ (loaded /\ scopes = << >>)
         => /\ mockFetch = Undefined
            /\ FacadeTarget(mockFetch, baseFetch) = baseFetch

====
